---- MODULE Spec2Model ----
(***************************************************************************)
(* Proof-of-work difficulty engine of pinkdog (src/pow.cpp) with the       *)
(* per-network consensus parameters of src/chainparams.cpp.                *)
(*                                                                         *)
(* A 256-bit number (uint256 / arith_uint256) is a sequence of WIDTH_BYTES *)
(* bytes, least significant byte first.  A compact target (the 32-bit      *)
(* nBits field) is the pair <<nSize, nWord>>: nSize is the top byte        *)
(* (nCompact >> 24) and nWord the low 24 bits (nCompact & 0x00ffffff),     *)
(* sign bit 0x00800000 included.                                           *)
(***************************************************************************)
EXTENDS Integers, Sequences, FiniteSets, TLC

VARIABLES params, chain, fn, arg, ret, frame

vars == <<params, chain, fn, arg, ret, frame>>

(***************************************************************************)
(* Bounds of the model.                                                    *)
(***************************************************************************)
\* Heights above the first retarget height that the block index reaches.
MaxAbove == 1
\* Half-width of the windows of measured timespans around each threshold.
Window == 4
\* Small targets 1..MaxSmallTarget are tried next to the network ones.
MaxSmallTarget == 6
\* Blocks below the tip whose nBits vary freely in the walk-back chains.
MaxTail == 2
\* Blocks after the genesis block whose time varies freely as a chain grows.
MaxFree == 1

(***************************************************************************)
(* Byte-sequence arithmetic (arith_uint256).                               *)
(***************************************************************************)
WIDTH_BYTES == 32

\* Width used only where a formula needs the product without reduction.
WideBytes == WIDTH_BYTES + 4

Byte(v, k) ==
    IF k = 0 THEN v % 256
    ELSE IF k = 1 THEN (v \div 256) % 256
    ELSE IF k = 2 THEN (v \div 65536) % 256
    ELSE IF k = 3 THEN (v \div 16777216) % 256
    ELSE 0

\* The n-byte number of a small non-negative integer.
FromInt(v, n) == [i \in 1..n |-> Byte(v, i - 1)]

\* Zero-extension (or truncation modulo 256^n) of a to n bytes.
Resize(a, n) == [i \in 1..n |-> IF i <= Len(a) THEN a[i] ELSE 0]

IsZero(a) == \A i \in 1..Len(a) : a[i] = 0

RECURSIVE CompareFrom(_, _, _)
CompareFrom(a, b, i) ==
    IF i = 0 THEN 0
    ELSE IF a[i] > b[i] THEN 1
    ELSE IF a[i] < b[i] THEN -1
    ELSE CompareFrom(a, b, i - 1)

\* base_uint::CompareTo for two numbers of the same width: -1, 0 or 1.
CompareTo(a, b) == CompareFrom(a, b, Len(a))

Gt(a, b) == CompareTo(a, b) = 1

RECURSIVE MulCarry(_, _, _)
MulCarry(a, m, i) ==
    IF i = 0 THEN 0 ELSE (a[i] * m + MulCarry(a, m, i - 1)) \div 256

\* a * m reduced modulo 256^Len(a): the product kept in the width of a.
MulSmall(a, m) ==
    [i \in 1..Len(a) |-> (a[i] * m + MulCarry(a, m, i - 1)) % 256]

RECURSIVE DivRem(_, _, _)
DivRem(a, d, i) ==
    IF i > Len(a) THEN 0 ELSE (DivRem(a, d, i + 1) * 256 + a[i]) % d

\* floor(a / d) for a small divisor d > 0.
DivSmall(a, d) ==
    [i \in 1..Len(a) |-> (DivRem(a, d, i + 1) * 256 + a[i]) \div d]

\* a + 1 modulo 256^Len(a).
Succ(a) ==
    [i \in 1..Len(a) |->
        IF \A j \in 1..(i - 1) : a[j] = 255 THEN (a[i] + 1) % 256 ELSE a[i]]

\* Number of significant bytes: (bits() + 7) / 8.
SizeBytes(a) ==
    IF IsZero(a) THEN 0
    ELSE CHOOSE k \in 1..Len(a) :
            a[k] # 0 /\ \A j \in (k + 1)..Len(a) : a[j] = 0

\* bnNew *= nActualTimespan on a 256-bit number.
MulAssign(bn, m) == MulSmall(Resize(bn, WIDTH_BYTES), m)

\* bnNew /= params.nPowTargetTimespan on a 256-bit number.
DivAssign(bn, d) == DivSmall(Resize(bn, WIDTH_BYTES), d)

(***************************************************************************)
(* CompactNumber codec (arith_uint256::SetCompact / GetCompact).           *)
(***************************************************************************)
SignBit == 8388608

\* decode: the 256-bit value of <<nSize, nWord>> with its two flags.
SetCompact(nCompact) ==
    LET nSize == nCompact[1]
        mant == nCompact[2] % SignBit
        nWord == IF nSize <= 3
                 THEN IF nSize = 3 THEN mant
                      ELSE IF nSize = 2 THEN mant \div 256
                      ELSE IF nSize = 1 THEN mant \div 65536
                      ELSE 0
                 ELSE mant
        value == IF nSize <= 3
                 THEN FromInt(nWord, WIDTH_BYTES)
                 ELSE [i \in 1..WIDTH_BYTES |->
                          IF i - 1 >= nSize - 3 /\ i - 1 <= nSize - 1
                          THEN Byte(nWord, (i - 1) - (nSize - 3))
                          ELSE 0]
    IN  [value |-> value,
         fNegative |-> nWord # 0 /\ nCompact[2] >= SignBit,
         fOverflow |-> nWord # 0 /\ (\/ nSize > 34
                                     \/ (nWord > 255 /\ nSize > 33)
                                     \/ (nWord > 65535 /\ nSize > 32))]

\* encode: the canonical non-negative compact form of a 256-bit number.
GetCompact(bn) ==
    LET n == SizeBytes(bn)
        b(k) == IF k >= 1 /\ k <= Len(bn) THEN bn[k] ELSE 0
        word == IF n <= 3
                THEN IF n = 0 THEN 0
                     ELSE IF n = 1 THEN b(1) * 65536
                     ELSE IF n = 2 THEN (b(2) * 256 + b(1)) * 256
                     ELSE b(3) * 65536 + b(2) * 256 + b(1)
                ELSE b(n) * 65536 + b(n - 1) * 256 + b(n - 2)
    IN  IF word >= SignBit THEN <<n + 1, word \div 256>> ELSE <<n, word>>

(***************************************************************************)
(* Consensus parameters of the three networks.                             *)
(***************************************************************************)
nPowTargetTimespan == 30 * 60
nPowTargetSpacing == 30

\* 00000000ffff...ff
PowLimitMain == [i \in 1..WIDTH_BYTES |-> IF i <= 28 THEN 255 ELSE 0]
\* 7fffffff...ff
PowLimitRegTest == [i \in 1..WIDTH_BYTES |-> IF i <= 31 THEN 255 ELSE 127]

CMainParams ==
    [strNetworkID |-> "main", powLimit |-> PowLimitMain,
     nPowTargetTimespan |-> nPowTargetTimespan,
     nPowTargetSpacing |-> nPowTargetSpacing,
     fPowAllowMinDifficultyBlocks |-> FALSE, fPowNoRetargeting |-> FALSE]

CTestNetParams ==
    [strNetworkID |-> "test", powLimit |-> PowLimitMain,
     nPowTargetTimespan |-> nPowTargetTimespan,
     nPowTargetSpacing |-> nPowTargetSpacing,
     fPowAllowMinDifficultyBlocks |-> TRUE, fPowNoRetargeting |-> FALSE]

CRegTestParams ==
    [strNetworkID |-> "regtest", powLimit |-> PowLimitRegTest,
     nPowTargetTimespan |-> nPowTargetTimespan,
     nPowTargetSpacing |-> nPowTargetSpacing,
     fPowAllowMinDifficultyBlocks |-> TRUE, fPowNoRetargeting |-> TRUE]

\* Params(chain): the parameter tables SelectParams can install.
Networks == {CMainParams, CTestNetParams, CRegTestParams}

\* Consensus::Params::DifficultyAdjustmentInterval()
DifficultyAdjustmentInterval(p) == p.nPowTargetTimespan \div p.nPowTargetSpacing

(***************************************************************************)
(* CheckProofOfWork (pow.cpp 101-118).                                     *)
(***************************************************************************)
\* Faulty variant: a hash equal to the target is rejected.
CheckProofOfWork_Strict(hash, nBits, p) ==
    LET d == SetCompact(nBits)
    IN  /\ ~d.fNegative
        /\ ~IsZero(d.value)
        /\ ~d.fOverflow
        /\ ~Gt(d.value, p.powLimit)
        /\ Gt(d.value, hash)

CheckProofOfWork(hash, nBits, p) ==
    LET d == SetCompact(nBits)
        bnTarget == d.value
    IN  IF \/ d.fNegative
           \/ IsZero(bnTarget)
           \/ d.fOverflow
           \/ Gt(bnTarget, p.powLimit)
        THEN FALSE
        ELSE IF Gt(hash, bnTarget)
        THEN FALSE
        ELSE TRUE

(***************************************************************************)
(* The block index (CBlockIndex).  chain[i] is the block of height i - 1;  *)
(* its pprev is chain[i - 1], and the genesis block chain[1] has none.  A  *)
(* pindexLast of 0 is the NULL pointer.                                    *)
(***************************************************************************)
nHeight(i) == i - 1

\* CBlockIndex::GetAncestor(height) of the block at index i.
GetAncestor(c, i, height) ==
    IF height < 0 \/ height > nHeight(i) THEN 0 ELSE height + 1

\* CBlockIndex::GetMedianTimePast(), kept by the block index per block.
GetMedianTimePast(c, i) == c[i].nMedianTimePast

\* CBlockIndex::GetBlockTime()
GetBlockTime(c, i) == c[i].nTime

(***************************************************************************)
(* CalculateNextWorkRequired (pow.cpp 42-99).                              *)
(***************************************************************************)
nMaxAdjustDown == 16
nMaxAdjustUp == 8

\* Faulty variant: the quotient is rounded down.
TruncDiv_Floor(a, b) == a \div b

\* int64_t division: the quotient is truncated toward zero.
TruncDiv(a, b) == IF a >= 0 THEN a \div b ELSE -((-a) \div b)

nMinActualTimespan(p) ==
    TruncDiv(p.nPowTargetTimespan * (100 - nMaxAdjustUp), 100)

nMaxActualTimespan(p) ==
    TruncDiv(p.nPowTargetTimespan * (100 + nMaxAdjustDown), 100)

\* Faulty variant: the first full window already retargets.
UsesDefaultLimit_FullWindow(height, p) ==
    height + 1 < p.nPowTargetTimespan \div p.nPowTargetSpacing

\* pow.cpp 50: the heights answered with the proof-of-work limit.
UsesDefaultLimit(height, p) == height < DifficultyAdjustmentInterval(p)

\* pow.cpp 56: the height of the first block of the averaging interval.
HeightFirst(height, p) == height - (DifficultyAdjustmentInterval(p) - 1)

\* pow.cpp 69: the measured timespan, damped by four.
DampedTimespan(nActualTimespan, p) ==
    p.nPowTargetTimespan + TruncDiv(nActualTimespan - p.nPowTargetTimespan, 4)

\* Faulty variant: the upper limit of the adjustment step is not applied.
LimitTimespan_NoMax(nActualTimespan, p) ==
    IF nActualTimespan < (p.nPowTargetTimespan * 92) \div 100
    THEN (p.nPowTargetTimespan * 92) \div 100
    ELSE nActualTimespan

\* pow.cpp 73-76: the damped timespan limited to the adjustment step.
LimitTimespan(nActualTimespan, p) ==
    LET lo == IF nActualTimespan < nMinActualTimespan(p)
              THEN nMinActualTimespan(p) ELSE nActualTimespan
    IN  IF lo > nMaxActualTimespan(p) THEN nMaxActualTimespan(p) ELSE lo

\* pow.cpp 80-83: bnNew.SetCompact(nBits); bnNew *= timespan; bnNew /= target.
Retarget(nBits, nActualTimespan, p) ==
    DivAssign(MulAssign(SetCompact(nBits).value, nActualTimespan),
              p.nPowTargetTimespan)

\* pow.cpp 85-89: bnNew limited to bnPowLimit.
LimitTarget(bnNew, p) == IF Gt(bnNew, p.powLimit) THEN p.powLimit ELSE bnNew

NoFrame == [branch |-> "none"]

\* pow.cpp 47-98: the locals of a call that retargets, at its return.
RetargetFrame(c, pindexLast, p) ==
    IF UsesDefaultLimit(nHeight(pindexLast), p)
    THEN [branch |-> "default", ret |-> GetCompact(p.powLimit)]
    ELSE LET nHeightFirst == HeightFirst(nHeight(pindexLast), p)
             pindexFirst == GetAncestor(c, pindexLast, nHeightFirst)
             measured == GetMedianTimePast(c, pindexLast)
                            - GetMedianTimePast(c, pindexFirst)
             nActualTimespan == LimitTimespan(DampedTimespan(measured, p), p)
             bnScaled == Retarget(c[pindexLast].nBits, nActualTimespan, p)
             bnNew == LimitTarget(bnScaled, p)
         IN  [branch |-> "retarget",
              nHeightFirst |-> nHeightFirst,
              measured |-> measured,
              nActualTimespan |-> nActualTimespan,
              bnScaled |-> bnScaled,
              bnNew |-> bnNew,
              ret |-> GetCompact(bnNew)]

\* Faulty variant: fPowNoRetargeting is not looked at.
CalculateFrame_IgnoresNoRetargeting(c, pindexLast, p) ==
    RetargetFrame(c, pindexLast, p)

\* pow.cpp 42-99: the locals of one call at its return.
CalculateFrame(c, pindexLast, p) ==
    IF p.fPowNoRetargeting
    THEN [branch |-> "noRetargeting", ret |-> c[pindexLast].nBits]
    ELSE RetargetFrame(c, pindexLast, p)

CalculateNextWorkRequired(c, pindexLast, p) ==
    CalculateFrame(c, pindexLast, p).ret

(***************************************************************************)
(* GetNextWorkRequired (pow.cpp 14-40).                                    *)
(***************************************************************************)
\* Faulty variant: a block exactly two spacings late already counts as late.
GapRuleFires_Inclusive(blockTime, lastTime, p) ==
    blockTime >= lastTime + p.nPowTargetSpacing * 2

\* pow.cpp 27: the new block is late enough for a min-difficulty block.
GapRuleFires(blockTime, lastTime, p) ==
    blockTime > lastTime + p.nPowTargetSpacing * 2

\* Faulty variant: the walk does not stop at a retarget boundary.
WalkContinues_PastBoundary(c, i, p) ==
    i > 1 /\ c[i].nBits = GetCompact(p.powLimit)

\* pow.cpp 33: the walk goes on from block i to its pprev.
WalkContinues(c, i, p) ==
    /\ i > 1
    /\ nHeight(i) % DifficultyAdjustmentInterval(p) # 0
    /\ c[i].nBits = GetCompact(p.powLimit)

RECURSIVE LastNonSpecial(_, _, _)
\* pow.cpp 32-34: the last non-special-min-difficulty-rules block.
LastNonSpecial(c, i, p) ==
    IF WalkContinues(c, i, p) THEN LastNonSpecial(c, i - 1, p) ELSE i

\* Faulty variant: fPowAllowMinDifficultyBlocks is not consulted, every
\* block after the genesis block goes to the retarget computation.
GetNextFrame_AlwaysCalculates(c, pindexLast, blockTime, p) ==
    IF pindexLast = 0
    THEN [branch |-> "genesis", ret |-> GetCompact(p.powLimit)]
    ELSE [branch |-> "calculate",
          ret |-> CalculateNextWorkRequired(c, pindexLast, p)]

\* The locals of one call of GetNextWorkRequired at its return.
GetNextFrame(c, pindexLast, blockTime, p) ==
    LET nProofOfWorkLimit == GetCompact(p.powLimit)
    IN  IF pindexLast = 0
        THEN [branch |-> "genesis", ret |-> nProofOfWorkLimit]
        ELSE IF p.fPowAllowMinDifficultyBlocks
        THEN IF GapRuleFires(blockTime, GetBlockTime(c, pindexLast), p)
             THEN [branch |-> "gap", ret |-> nProofOfWorkLimit]
             ELSE LET pindex == LastNonSpecial(c, pindexLast, p)
                  IN  [branch |-> "walk", pindex |-> pindex,
                       ret |-> c[pindex].nBits]
        ELSE [branch |-> "calculate",
              ret |-> CalculateNextWorkRequired(c, pindexLast, p)]

GetNextWorkRequired(c, pindexLast, blockTime, p) ==
    GetNextFrame(c, pindexLast, blockTime, p).ret

(***************************************************************************)
(* Inputs: compact targets, hashes, block indexes and block times.         *)
(***************************************************************************)
\* genesis.nTime and genesis.nBits of CreateGenesisBlock, per network.
GenesisTime(p) ==
    IF p.strNetworkID = "main" THEN 1487000003
    ELSE IF p.strNetworkID = "test" THEN 1487000011
    ELSE 1487000020

GenesisBits(p) ==
    IF p.strNetworkID = "regtest" THEN <<32, 8388607>> ELSE <<29, 65535>>

\* 0x1d00ffff, 0x1d00fffe, 0x1c7fffff, 0x1b0404cb, 0x207fffff, 0x21008000,
\* 0x20400000, 0x02008000, 0x01010000, 0, 0x04923456 (negative),
\* 0xff123456 (overflow), 0x01800000 (sign bit on a zero mantissa).
NetworkBits ==
    {<<29, 65535>>, <<29, 65534>>, <<28, 8388607>>, <<27, 263371>>,
     <<32, 8388607>>, <<33, 32768>>, <<32, 4194304>>, <<2, 32768>>,
     <<1, 65536>>, <<0, 0>>, <<4, 9581654>>, <<255, 1193046>>,
     <<1, 8388608>>}

SmallBits == {<<3, v>> : v \in 1..MaxSmallTarget}

CompactInputs == NetworkBits \cup SmallBits

HashInputs ==
    LET targets == {SetCompact(c).value : c \in CompactInputs}
    IN  targets \cup {Succ(t) : t \in targets}

\* Measured timespans: around the target timespan, around the two values
\* where the damped timespan meets its limits, and far away on both sides.
MeasuredInputs(p) ==
    LET T == p.nPowTargetTimespan
        at == {T, T - 4 * (T - nMinActualTimespan(p)),
                  T + 4 * (nMaxActualTimespan(p) - T)}
    IN  {m + d : m \in at, d \in (0 - Window)..Window}
            \cup {0 - 100 * T, 0 - T, 0 - 1, 0, 1, 100 * T}

\* Heights of pindexLast around the first retarget height.
HeightInputs(p) ==
    LET I == DifficultyAdjustmentInterval(p)
    IN  {0, 1} \cup ((I - 2)..(I + MaxAbove))

\* A block index of the given height whose tip has the given nBits and a
\* median time past `measured` seconds after that of the first block of
\* its averaging interval; blocks are nPowTargetSpacing apart.
CalcChain(p, height, nBits, measured) ==
    LET first == IF HeightFirst(height, p) > 0 THEN HeightFirst(height, p) ELSE 0
        time(k) == GenesisTime(p) + k * p.nPowTargetSpacing
        limit == GetCompact(p.powLimit)
    IN  [i \in 1..(height + 1) |->
            [nBits |-> IF nHeight(i) = height THEN nBits
                       ELSE IF nHeight(i) = 0 THEN GenesisBits(p)
                       ELSE limit,
             nTime |-> time(nHeight(i)),
             nMedianTimePast |-> IF nHeight(i) = height /\ height > 0
                                 THEN time(first) + measured
                                 ELSE time(nHeight(i))]]

CalcChains(p) ==
    {CalcChain(p, h, b, m) :
        h \in HeightInputs(p), b \in CompactInputs, m \in MeasuredInputs(p)}

\* nBits of the blocks in the walk-back chains: the limit and two others.
WalkBits(p) == {GetCompact(p.powLimit), <<28, 8388607>>, <<27, 263371>>}

\* A block index of the given height: the tip and the MaxTail blocks below
\* it take their nBits from tail, the older ones have nBits fill.
WalkChain(p, height, tail, fill) ==
    [i \in 1..(height + 1) |->
        [nBits |-> IF height - nHeight(i) <= MaxTail
                   THEN tail[height - nHeight(i) + 1]
                   ELSE fill,
         nTime |-> GenesisTime(p) + nHeight(i) * p.nPowTargetSpacing,
         nMedianTimePast |->
             GenesisTime(p) + nHeight(i) * p.nPowTargetSpacing]]

WalkChains(p) ==
    {<<>>} \cup
    {WalkChain(p, h, t, f) :
        h \in HeightInputs(p),
        t \in [1..(MaxTail + 1) -> WalkBits(p)],
        f \in WalkBits(p)}

\* pblock->GetBlockTime() relative to the tip: around the gap of two
\* spacings, before the tip, and long after it.
BlockTimeInputs(c, p) ==
    LET last == IF Len(c) = 0 THEN GenesisTime(p) ELSE GetBlockTime(c, Len(c))
    IN  {last + p.nPowTargetSpacing * 2 + d : d \in {0 - 1, 0, 1}}
            \cup {last - 1, last + 100 * p.nPowTargetSpacing}

(***************************************************************************)
(* State machine: a caller holding a block index calls one function of     *)
(* pow.cpp and takes its result.                                           *)
(***************************************************************************)
Idle ==
    /\ fn = "idle"
    /\ arg = <<>>
    /\ ret = <<>>
    /\ frame = NoFrame

CallCheckProofOfWork ==
    /\ fn = "idle"
    /\ \E hash \in HashInputs, nBits \in CompactInputs :
        /\ fn' = "CheckProofOfWork"
        /\ arg' = [hash |-> hash, nBits |-> nBits]
        /\ ret' = CheckProofOfWork(hash, nBits, params)
        /\ frame' = NoFrame
    /\ UNCHANGED <<params, chain>>

CallCalculateNextWorkRequired ==
    /\ fn = "idle"
    /\ Len(chain) > 0
    /\ fn' = "CalculateNextWorkRequired"
    /\ arg' = [pindexLast |-> Len(chain)]
    /\ \E f \in {CalculateFrame(chain, Len(chain), params)} :
        /\ frame' = f
        /\ ret' = f.ret
    /\ UNCHANGED <<params, chain>>

CallGetNextWorkRequired ==
    /\ fn = "idle"
    /\ \E blockTime \in BlockTimeInputs(chain, params) :
        /\ fn' = "GetNextWorkRequired"
        /\ arg' = [pindexLast |-> Len(chain), blockTime |-> blockTime]
        /\ \E f \in {GetNextFrame(chain, Len(chain), blockTime, params)} :
            /\ frame' = f
            /\ ret' = f.ret
    /\ UNCHANGED <<params, chain>>

Return ==
    /\ fn # "idle"
    /\ fn' = "idle"
    /\ arg' = <<>>
    /\ ret' = <<>>
    /\ frame' = NoFrame
    /\ UNCHANGED <<params, chain>>

\* Consensus::Params as the argument of CheckProofOfWork: each network's
\* table, and the main one with the smallest and the largest powLimit.
PowParamsInputs ==
    Networks \cup
    {[CMainParams EXCEPT !.powLimit = l] :
        l \in {FromInt(1, WIDTH_BYTES), [i \in 1..WIDTH_BYTES |-> 255]}}

\* The proof-of-work check on any header, under any of these parameters.
InitPow ==
    /\ params \in PowParamsInputs
    /\ chain = <<>>
    /\ Idle

NextPow == CallCheckProofOfWork \/ Return

SpecPow == InitPow /\ [][NextPow]_vars

\* The retarget engine on the block indexes of each network.
InitCalc ==
    /\ params \in Networks
    /\ chain \in CalcChains(params)
    /\ Idle

NextCalc == CallCalculateNextWorkRequired \/ Return

SpecCalc == InitCalc /\ [][NextCalc]_vars

\* The next-target selector on the walk-back block indexes of each network.
Init ==
    /\ params \in Networks
    /\ chain \in WalkChains(params)
    /\ Idle

Next == CallGetNextWorkRequired \/ Return

Spec == Init /\ [][Next]_vars

\* Consensus::Params as the argument of CalculateNextWorkRequired: each
\* network's table with fPowNoRetargeting either way.
ParamsInputs ==
    {[n EXCEPT !.fPowNoRetargeting = r] : n \in Networks, r \in BOOLEAN}

\* The retarget engine called with any of these parameters.
InitCalcAnyParams ==
    /\ params \in ParamsInputs
    /\ chain \in CalcChains(params)
    /\ Idle

SpecCalcAnyParams == InitCalcAnyParams /\ [][NextCalc]_vars

(***************************************************************************)
(* Chain growth: every new block takes its nBits from GetNextWorkRequired  *)
(* of its parent, starting from the network's genesis block.               *)
(***************************************************************************)
\* CBlockIndex::nMedianTimeSpan: the blocks a median time past looks at.
nMedianTimeSpan == 11

\* The middle element of the sorted times (index n / 2 of n, from zero).
Median(times) ==
    LET n == Len(times)
        below(v) == Cardinality({k \in 1..n : times[k] < v})
        upTo(v) == Cardinality({k \in 1..n : times[k] <= v})
    IN  CHOOSE v \in {times[k] : k \in 1..n} :
            below(v) <= n \div 2 /\ n \div 2 < upTo(v)

\* The median time past of a block at time blockTime connected on top of c.
MedianTimePast(c, blockTime) ==
    LET from == IF Len(c) > nMedianTimeSpan - 1
                THEN Len(c) - (nMedianTimeSpan - 1) + 1 ELSE 1
        times == [k \in 1..(Len(c) - from + 1) |-> c[from + k - 1].nTime]
    IN  Median(Append(times, blockTime))

\* The block index holding the genesis block alone.
GenesisChain(p) ==
    <<[nBits |-> GenesisBits(p),
       nTime |-> GenesisTime(p),
       nMedianTimePast |-> GenesisTime(p)]>>

\* Seconds between a block and its parent: before the parent, on time,
\* and later than the gap rule's two spacings.
TimeOffsets(p) == {0 - 1, p.nPowTargetSpacing, p.nPowTargetSpacing * 2 + 1}

\* The blocks whose time is chosen freely: the first MaxFree ones and those
\* around the first retarget height; the others come on time.
FreeTimestamp(height, p) ==
    \/ height <= MaxFree
    \/ height >= DifficultyAdjustmentInterval(p) - 1

NewBlockTimes(c, p) ==
    LET last == GetBlockTime(c, Len(c))
    IN  IF FreeTimestamp(nHeight(Len(c) + 1), p)
        THEN {last + d : d \in TimeOffsets(p)}
        ELSE {last + p.nPowTargetSpacing}

\* A new block is connected on the tip: its nBits are those
\* GetNextWorkRequired gives for its parent and its time.
ConnectBlock ==
    /\ fn = "idle"
    /\ nHeight(Len(chain)) < DifficultyAdjustmentInterval(params) + MaxAbove
    /\ \E blockTime \in NewBlockTimes(chain, params) :
        chain' = Append(chain,
            [nBits |-> GetNextWorkRequired(chain, Len(chain), blockTime, params),
             nTime |-> blockTime,
             nMedianTimePast |-> MedianTimePast(chain, blockTime)])
    /\ UNCHANGED <<params, fn, arg, ret, frame>>

InitGrow ==
    /\ params \in Networks
    /\ chain = GenesisChain(params)
    /\ Idle

NextGrow == ConnectBlock \/ CallGetNextWorkRequired \/ Return

SpecGrow == InitGrow /\ [][NextGrow]_vars

(***************************************************************************)
(* Properties.                                                             *)
(***************************************************************************)
\* a <= b as unsigned integers: equal, or smaller at the highest byte
\* where they differ.
UnsignedLe(a, b) ==
    \/ a = b
    \/ \E k \in 1..Len(a) :
        /\ a[k] < b[k]
        /\ \A j \in (k + 1)..Len(a) : a[j] = b[j]

\* floor(a * m / d) without any reduction of the product.
WideScale(a, m, d) == DivSmall(MulSmall(Resize(a, WideBytes), m), d)

Wide(a) == Resize(a, WideBytes)

Called(f) == fn = f

TipBits == chain[Len(chain)].nBits

TipHeight == nHeight(Len(chain))

Interval == DifficultyAdjustmentInterval(params)

PowLimitCompact == GetCompact(params.powLimit)

\* C1: CheckProofOfWork returns true exactly when the decoded compact value
\* is not negative, not overflowing, its target is in 0 < target <= powLimit
\* and the hash, as an unsigned integer, is <= target.
C1_CheckProofOfWorkExact ==
    Called("CheckProofOfWork") =>
        LET d == SetCompact(arg.nBits)
        IN  ret = (/\ ~d.fNegative
                   /\ ~d.fOverflow
                   /\ d.value # FromInt(0, WIDTH_BYTES)
                   /\ UnsignedLe(d.value, params.powLimit)
                   /\ UnsignedLe(arg.hash, d.value))

\* A hash equal to a valid target is accepted.
C1_Witness ==
    /\ Called("CheckProofOfWork")
    /\ ret = TRUE
    /\ arg.hash = SetCompact(arg.nBits).value
    /\ arg.nBits = <<29, 65535>>

\* The result the retarget steps give for the tip when the measured
\* timespan is taken between the tip and its ancestor of height firstHeight.
RetargetedFrom(firstHeight) ==
    LET measured == chain[Len(chain)].nMedianTimePast
                        - chain[firstHeight + 1].nMedianTimePast
        timespan == LimitTimespan(DampedTimespan(measured, params), params)
    IN  GetCompact(LimitTarget(Retarget(TipBits, timespan, params), params))

\* C2 as stated: with noRetargeting false the result is encode(powLimit)
\* when height + 1 < adjustmentInterval, and from height + 1 >=
\* adjustmentInterval on (height = adjustmentInterval - 1 included) it is
\* computed from the median-time-past difference between the tip and its
\* ancestor at height - (adjustmentInterval - 1).
C2_Original ==
    (Called("CalculateNextWorkRequired") /\ ~params.fPowNoRetargeting) =>
        /\ TipHeight + 1 < Interval => ret = PowLimitCompact
        /\ TipHeight + 1 >= Interval =>
                ret = RetargetedFrom(TipHeight - (Interval - 1))

\* C2 amended: with noRetargeting false the result is encode(powLimit) when
\* height < adjustmentInterval (height = adjustmentInterval - 1 included),
\* and from height >= adjustmentInterval on it is computed from the
\* median-time-past difference between the tip and its ancestor at
\* height - (adjustmentInterval - 1).
C2_DefaultBelowInterval ==
    (Called("CalculateNextWorkRequired") /\ ~params.fPowNoRetargeting) =>
        /\ TipHeight < Interval =>
                ret = PowLimitCompact /\ frame.branch = "default"
        /\ TipHeight >= Interval =>
                /\ frame.branch = "retarget"
                /\ frame.nHeightFirst = TipHeight - (Interval - 1)
                /\ ret = RetargetedFrom(TipHeight - (Interval - 1))

\* The first height that retargets gives a target other than the limit.
C2_Witness ==
    /\ Called("CalculateNextWorkRequired")
    /\ ~params.fPowNoRetargeting
    /\ TipHeight = Interval
    /\ frame.branch = "retarget"
    /\ frame.nHeightFirst = 1
    /\ TipBits = PowLimitCompact
    /\ ret # PowLimitCompact

\* C3: with noRetargeting true the result is the tip's nBits unchanged, at
\* every height and for every median time.
C3_NoRetargetingKeepsBits ==
    (Called("CalculateNextWorkRequired") /\ params.fPowNoRetargeting) =>
        ret = TipBits

\* Below the adjustment interval the tip's nBits are kept although they
\* differ from the limit.
C3_Witness ==
    /\ Called("CalculateNextWorkRequired")
    /\ params.fPowNoRetargeting
    /\ TipHeight < Interval
    /\ TipBits # PowLimitCompact
    /\ ret = TipBits

Old == SetCompact(TipBits).value

Retargeted == Called("CalculateNextWorkRequired") /\ frame.branch = "retarget"

OldInRange ==
    /\ Old # FromInt(0, WIDTH_BYTES)
    /\ UnsignedLe(Old, params.powLimit)

\* C4: in the retarget branch, for a tip whose nBits decode to a target
\* old with 0 < old <= powLimit and for every measured timespan, the new
\* target before encoding lies in old*92/100 .. old*116/100 (integer
\* quotients), both before and after it is limited to powLimit.
C4_StepWithinBounds ==
    (Retargeted /\ OldInRange) =>
        /\ UnsignedLe(WideScale(Old, 92, 100), Wide(frame.bnScaled))
        /\ UnsignedLe(Wide(frame.bnScaled), WideScale(Old, 116, 100))
        /\ UnsignedLe(WideScale(Old, 92, 100), Wide(frame.bnNew))
        /\ UnsignedLe(Wide(frame.bnNew), WideScale(Old, 116, 100))

\* A far too long measured timespan eases the network's limit-sized target
\* of the previous window by exactly the largest step.
C4_Witness ==
    /\ Retargeted
    /\ TipBits = <<29, 65534>>
    /\ frame.measured = 100 * params.nPowTargetTimespan
    /\ Wide(frame.bnScaled) = WideScale(Old, 116, 100)
    /\ frame.bnScaled # Old

ExpectedTimespan(measured) ==
    LET T == params.nPowTargetTimespan
        damped == IF measured >= T
                  THEN T + ((measured - T) \div 4)
                  ELSE T - ((T - measured) \div 4)
        lo == (T * 92) \div 100
        hi == (T * 116) \div 100
    IN  IF damped < lo THEN lo ELSE IF damped > hi THEN hi ELSE damped

\* C9: in the retarget branch the timespan that scales the target is
\* clamp(T + trunc((raw - T) / 4), T*92/100, T*116/100) with raw the
\* median-time-past difference of the tip and the first block of its
\* window; raw 1 to 3 seconds below T leaves it at T.
C9_DampedClampedTimespan ==
    Retargeted =>
        LET raw == chain[Len(chain)].nMedianTimePast
                      - chain[TipHeight - (Interval - 1) + 1].nMedianTimePast
        IN  /\ frame.nActualTimespan = ExpectedTimespan(raw)
            /\ (raw < params.nPowTargetTimespan
                    /\ raw >= params.nPowTargetTimespan - 3)
                  => frame.nActualTimespan = params.nPowTargetTimespan

\* A window one second short of the target timespan is not rounded down.
C9_Witness ==
    /\ Retargeted
    /\ frame.measured = params.nPowTargetTimespan - 1
    /\ frame.nActualTimespan = params.nPowTargetTimespan

\* decode(c) is a target CheckProofOfWork can accept for some hash.
ConsensusValid(c) ==
    LET d == SetCompact(c)
    IN  /\ ~d.fNegative
        /\ ~d.fOverflow
        /\ d.value # FromInt(0, WIDTH_BYTES)
        /\ UnsignedLe(d.value, params.powLimit)

\* C10 as stated: from a tip whose nBits are consensus-valid, every result
\* of CalculateNextWorkRequired is consensus-valid.
C10_Original ==
    (Called("CalculateNextWorkRequired") /\ ConsensusValid(TipBits)) =>
        ConsensusValid(ret)

Selected(branch) == Called("GetNextWorkRequired") /\ frame.branch = branch

MinDifficultyCall ==
    /\ Called("GetNextWorkRequired")
    /\ params.fPowAllowMinDifficultyBlocks
    /\ arg.pindexLast # 0

TipTime == chain[Len(chain)].nTime

\* Block i ends the walk: it has no parent, or is at a retarget boundary,
\* or its nBits are not the limit.
StopsWalk(i) ==
    \/ i = 1
    \/ nHeight(i) % Interval = 0
    \/ chain[i].nBits # PowLimitCompact

\* The nearest block, from the tip back, that ends the walk.
NearestStop ==
    CHOOSE i \in 1..Len(chain) :
        StopsWalk(i) /\ \A k \in (i + 1)..Len(chain) : ~StopsWalk(k)

\* C6: with allowMinDifficultyBlocks and a non-genesis call, when the block
\* time is at most the tip's time plus two spacings, the result is the
\* nBits of the nearest block, from the tip back, that has no parent, or
\* is at a height that is a multiple of the adjustment interval, or has
\* nBits other than encode(powLimit); a tip at a retarget boundary gives
\* its own nBits.
C6_WalkBackStopsAtNearest ==
    (MinDifficultyCall
        /\ arg.blockTime <= TipTime + 2 * params.nPowTargetSpacing) =>
        /\ ret = chain[NearestStop].nBits
        /\ TipHeight % Interval = 0 => ret = TipBits

\* The walk-back scenario: the tip is at a retarget boundary with the
\* limit for nBits, as has its parent, and the block before has not.
C6_Witness ==
    /\ Selected("walk")
    /\ Len(chain) > 3
    /\ TipHeight % Interval = 0
    /\ TipBits = PowLimitCompact
    /\ chain[Len(chain) - 1].nBits = PowLimitCompact
    /\ chain[Len(chain) - 2].nBits # PowLimitCompact
    /\ ret = TipBits

\* C7: with allowMinDifficultyBlocks and a non-genesis call, a block time
\* strictly later than the tip's time plus two spacings gives
\* encode(powLimit) whatever the block index holds; a block time equal to
\* it takes the walk-back instead.
C7_GapRuleStrict ==
    MinDifficultyCall =>
        /\ arg.blockTime > TipTime + 2 * params.nPowTargetSpacing =>
                ret = PowLimitCompact
        /\ arg.blockTime = TipTime + 2 * params.nPowTargetSpacing =>
                ret = chain[NearestStop].nBits

\* A block exactly two spacings late gets the tip's nBits, not the limit.
C7_Witness ==
    /\ Selected("walk")
    /\ arg.blockTime = TipTime + 2 * params.nPowTargetSpacing
    /\ ret # PowLimitCompact
    /\ ret = TipBits

\* Some block of the chain is earlier than its parent.
SomeBlockBeforeParent ==
    \E i \in 2..Len(chain) : chain[i].nTime < chain[i - 1].nTime

\* Some block of the chain is later than two spacings after its parent.
SomeBlockAfterGap ==
    \E i \in 2..Len(chain) :
        chain[i].nTime > chain[i - 1].nTime + 2 * params.nPowTargetSpacing

\* C11: on a network with fPowAllowMinDifficultyBlocks, GetNextWorkRequired
\* never goes to the retarget computation and returns either the compact
\* powLimit or the nBits of the tip or of one of its ancestors; and in a
\* chain grown from the genesis block, every new block taking the nBits
\* GetNextWorkRequired gives for its parent, every block has the compact
\* powLimit as its nBits, whatever the block times.
C11_MinDifficultyChainStaysAtLimit ==
    params.fPowAllowMinDifficultyBlocks =>
        LET limit == PowLimitCompact
        IN  /\ Called("GetNextWorkRequired") =>
                    /\ frame.branch # "calculate"
                    /\ \/ ret = limit
                       \/ \E i \in 1..Len(chain) : ret = chain[i].nBits
            /\ \A i \in 1..Len(chain) : chain[i].nBits = limit

\* A testnet chain grown past the first retarget height, with a block
\* before its parent and a block after the gap, whose next block is not
\* late: the walk-back gives the compact powLimit.
C11_Witness ==
    /\ params.fPowAllowMinDifficultyBlocks
    /\ ~params.fPowNoRetargeting
    /\ TipHeight > Interval
    /\ SomeBlockBeforeParent
    /\ SomeBlockAfterGap
    /\ Selected("walk")
    /\ ret = PowLimitCompact

====
